---- MODULE Spec2Model ----
(***************************************************************************)
(* A model of lib/SILOptimizer/UtilityPasses/BugReducerTester.cpp: the     *)
(* BugReducerTester function pass, the SIL it scans and rewrites, and the   *)
(* trap stub it creates in the module.                                      *)
(*                                                                          *)
(* A SIL value is a record [undef, id, ty]: the result of the instruction   *)
(* (or the function argument) `id` of the enclosing function, or SILUndef   *)
(* of type ty.  An instruction is a record [id, op, fn, callee, args, ty];  *)
(* a function is a record [blocks], a sequence of basic blocks, each a      *)
(* sequence of instructions; the module maps function names to functions.   *)
(***************************************************************************)
EXTENDS Naturals, Sequences, FiniteSets, TLC

\* ------------------------------------------------------------------ bounds
\* Number of BugReducerTester instances the pass manager holds.
NumPasses == 2
\* Number of run() invocations in one behaviour.
MaxVisits == 3

\* --------------------------------------------------------------- constants
RuntimeCrasherFunctionName == "bug_reducer_runtime_crasher_func"

FailureKind == {"OptimizerCrasher", "RuntimeMiscompile", "RuntimeCrasher", "None"}

\* The values the command line can give -bug-reducer-tester-target-func.
TargetNames == {"", "target"}

Passes == 1..NumPasses

\* --------------------------------------------------------------- SIL values
IntTy == "$Int"
FnTy == "$@convention(thin) () -> Int"
ThickTy == "$@callee_owned () -> Int"
FnFnTy == "$@convention(thin) () -> @owned @callee_owned () -> Int"
EmptyTupleTy == "$()"
CrasherFnTy == "$@convention(thin) () -> ()"
NoTy == ""

NoVal == [undef |-> FALSE, id |-> 0, ty |-> NoTy]
Val(id, ty) == [undef |-> FALSE, id |-> id, ty |-> ty]

\* SILUndef::get(Ty, M)
SILUndefGet(ty) == [undef |-> TRUE, id |-> 0, ty |-> ty]

\* ------------------------------------------------------------ instructions
MkInst(id, op, fn, callee, args, ty) ==
  [id |-> id, op |-> op, fn |-> fn, callee |-> callee, args |-> args, ty |-> ty]

FunctionRefInst(id, fn, ty) == MkInst(id, "function_ref", fn, NoVal, <<>>, ty)
ApplyInst(id, callee, args, ty) == MkInst(id, "apply", "", callee, args, ty)
ThinToThickInst(id, v, ty) == MkInst(id, "thin_to_thick_function", "", NoVal, <<v>>, ty)
DebugValueInst(id, v) == MkInst(id, "debug_value", "", NoVal, <<v>>, NoTy)
ReturnInst(id, v) == MkInst(id, "return", "", NoVal, <<v>>, NoTy)
BranchInst(id) == MkInst(id, "br", "", NoVal, <<>>, NoTy)
BuiltinTrapInst(id) == MkInst(id, "builtin_int_trap", "", NoVal, <<>>, EmptyTupleTy)
UnreachableInst(id) == MkInst(id, "unreachable", "", NoVal, <<>>, NoTy)

Terminators == {"return", "br", "unreachable"}

\* ------------------------------------------------------------ input bodies
\* The function argument of the bodies below that take one: a value no
\* instruction defines.
ArgVal(ty) == [undef |-> FALSE, id |-> 90, ty |-> ty]

Declaration == <<>>

\* One direct call, its result used twice.
OneCall ==
  << << FunctionRefInst(1, "target", FnTy),
        ApplyInst(2, Val(1, FnTy), <<>>, IntTy),
        DebugValueInst(3, Val(2, IntTy)),
        ReturnInst(4, Val(2, IntTy)) >> >>

\* A call to another function, then two direct calls to the target in two
\* blocks; the first call's result is used in the second block.
TwoCalls ==
  << << FunctionRefInst(1, "other", FnTy),
        ApplyInst(2, Val(1, FnTy), <<>>, IntTy),
        FunctionRefInst(3, "target", FnTy),
        ApplyInst(4, Val(3, FnTy), <<>>, IntTy),
        BranchInst(5) >>,
     << FunctionRefInst(6, "target", FnTy),
        ApplyInst(7, Val(6, FnTy), <<Val(4, IntTy)>>, IntTy),
        DebugValueInst(8, Val(4, IntTy)),
        ReturnInst(9, Val(7, IntTy)) >> >>

\* Two indirect calls whose callees alias the target (a converted function
\* reference, a function argument), then a direct call in the same block.
IndirectThenDirect ==
  << << FunctionRefInst(1, "target", FnTy),
        ThinToThickInst(2, Val(1, FnTy), ThickTy),
        ApplyInst(3, Val(2, ThickTy), <<>>, IntTy),
        ApplyInst(4, ArgVal(ThickTy), <<>>, IntTy),
        ApplyInst(5, Val(1, FnTy), <<Val(3, IntTy)>>, IntTy),
        ReturnInst(6, Val(5, IntTy)) >> >>

\* Only indirect calls of the target.
IndirectOnly ==
  << << FunctionRefInst(1, "target", FnTy),
        ThinToThickInst(2, Val(1, FnTy), ThickTy),
        ApplyInst(3, Val(2, ThickTy), <<>>, IntTy),
        ApplyInst(4, ArgVal(ThickTy), <<>>, IntTy),
        ReturnInst(5, Val(3, IntTy)) >> >>

\* No match in the first block, one in the second.
SecondBlock ==
  << << FunctionRefInst(1, "other", FnTy),
        ApplyInst(2, Val(1, FnTy), <<>>, IntTy),
        BranchInst(3) >>,
     << DebugValueInst(4, Val(2, IntTy)),
        FunctionRefInst(5, "target", FnTy),
        ApplyInst(6, Val(5, FnTy), <<Val(2, IntTy)>>, IntTy),
        ReturnInst(7, Val(6, IntTy)) >> >>

\* The target returns a closure that is called: the direct call's result is
\* the callee of the next call.
HigherOrder ==
  << << FunctionRefInst(1, "target", FnFnTy),
        ApplyInst(2, Val(1, FnFnTy), <<>>, ThickTy),
        ApplyInst(3, Val(2, ThickTy), <<>>, IntTy),
        ReturnInst(4, Val(3, IntTy)) >> >>

\* Two direct calls in one block through one function_ref, the second
\* taking the first's result; the second stands right before the terminator.
SameBlock ==
  << << FunctionRefInst(1, "target", FnTy),
        ApplyInst(2, Val(1, FnTy), <<>>, IntTy),
        ApplyInst(3, Val(1, FnTy), <<Val(2, IntTy)>>, IntTy),
        ReturnInst(4, Val(3, IntTy)) >> >>

Bodies ==
  {Declaration, OneCall, TwoCalls, IndirectThenDirect, IndirectOnly,
   SecondBlock, HigherOrder, SameBlock}

MkFunction(blocks) == [blocks |-> blocks]

\* The modules the pass is run over: two callers with any of the bodies, and
\* declarations of the two callees.
InputModule(b1, b2) ==
  ("f1" :> MkFunction(b1)) @@ ("f2" :> MkFunction(b2)) @@
  ("target" :> MkFunction(Declaration)) @@ ("other" :> MkFunction(Declaration))

\* ------------------------------------------------------------- SIL helpers
\* The SIL library calls the pass makes, by what they do to the function.

\* The instructions of F.
InstSet(F) ==
  UNION {{F.blocks[b][i] : i \in 1..Len(F.blocks[b])} : b \in 1..Len(F.blocks)}

MaxOf(S) == IF S = {} THEN 0 ELSE CHOOSE m \in S : \A n \in S : n <= m
\* A fresh instruction of F is named by the next unused id.
InstIds(F) ==
  UNION {{F.blocks[b][i].id : i \in 1..Len(F.blocks[b])} : b \in 1..Len(F.blocks)}
NextId(F) == MaxOf(InstIds(F)) + 1

\* SILFunction::isDefinition(): the function has a body.
isDefinition(F) == Len(F.blocks) > 0

\* SILValue replacement in one instruction's operands.
ReplaceOperand(v, old, new) == IF ~v.undef /\ v.id = old.id THEN new ELSE v
ReplaceInInst(I, old, new) ==
  [I EXCEPT !.callee = ReplaceOperand(@, old, new),
            !.args = [k \in 1..Len(@) |-> ReplaceOperand(@[k], old, new)]]

\* ValueBase::replaceAllUsesWith: every operand of the function that reads
\* the result of `Old` reads `new` instead.
replaceAllUsesWith(F, Old, new) ==
  [F EXCEPT !.blocks =
     [b \in 1..Len(@) |->
        [i \in 1..Len(@[b]) |-> ReplaceInInst(@[b][i], Old, new)]]]

RECURSIVE RemoveId(_, _)
RemoveId(block, id) ==
  IF block = <<>> THEN <<>>
  ELSE IF Head(block).id = id THEN Tail(block)
  ELSE <<Head(block)>> \o RemoveId(Tail(block), id)

\* SILInstruction::eraseFromParent: the instruction leaves its block.
eraseFromParent(F, I) ==
  [F EXCEPT !.blocks = [b \in 1..Len(@) |-> RemoveId(@[b], I.id)]]

RECURSIVE InsertBeforeId(_, _, _)
InsertBeforeId(block, id, New) ==
  IF block = <<>> THEN <<>>
  ELSE IF Head(block).id = id THEN <<New>> \o block
  ELSE <<Head(block)>> \o InsertBeforeId(Tail(block), id, New)

\* SILBuilder(I->getIterator()).create...: New is inserted right before I.
insertBefore(F, I, New) ==
  [F EXCEPT !.blocks = [b \in 1..Len(@) |-> InsertBeforeId(@[b], I.id, New)]]

\* SILFunction::createBasicBlock: an empty block at the end of the function.
createBasicBlock(F) == [F EXCEPT !.blocks = Append(@, <<>>)]

\* SILBuilder(BB).create...: New is appended to the last block.
insertAtEnd(F, New) ==
  LET n == Len(F.blocks)
  IN  [F EXCEPT !.blocks[n] = Append(@, New)]

\* SILModule::getOrCreateSharedFunction: the function of that name when the
\* module has one, else a new declaration of that name.
getOrCreateSharedFunction(M, name) ==
  IF name \in DOMAIN M THEN M ELSE M @@ (name :> MkFunction(Declaration))

\* ------------------------------------------------------------------ state
VARIABLES
  FunctionTarget,     \* -bug-reducer-tester-target-func
  TargetFailureKind,  \* -bug-reducer-tester-failure-kind
  NDEBUG,             \* the build: TRUE when assertions are compiled out
  module,             \* the SILModule: function name -> function
  CausedError,        \* per pass instance: the CausedError field
  pc,                 \* "running", or "aborted" once the process has died
  nvisits,            \* run() invocations so far
  last,               \* history: the latest run() invocation
  firstHit,           \* history, per pass: its first visit to a function that
                      \* held a direct call to the target
  injected,           \* history, per pass: the visits that removed a call
  worklist,           \* stepwise run: the functions still to be visited
  cursor              \* stepwise run: where run() stands in its loops

config == <<FunctionTarget, TargetFailureKind, NDEBUG>>
vars == <<FunctionTarget, TargetFailureKind, NDEBUG, module, CausedError, pc,
          nvisits, last, firstHit, injected, worklist, cursor>>

\* ------------------------------------------------------------------ the pass
NoSite == <<0, 0>>
InstAt(F, site) == F.blocks[site[1]][site[2]]

\* dyn_cast<FunctionRefInst>(v): v is the result of a function_ref.
IsFunctionRefInst(F, v) ==
  /\ ~v.undef
  /\ \E b \in 1..Len(F.blocks) : \E i \in 1..Len(F.blocks[b]) :
       F.blocks[b][i].id = v.id /\ F.blocks[b][i].op = "function_ref"

\* FRI->getReferencedFunction()->getName()
getReferencedFunctionName(F, v) == (CHOOSE I \in InstSet(F) : I.id = v.id).fn

\* Mutant: the callee is looked through a thin_to_thick_function.
IsTargetApplyThroughConversion(F, II, target) ==
  IF II.op # "apply" THEN FALSE
  ELSE IF II.callee.undef THEN FALSE
  ELSE \E I \in InstSet(F) :
         /\ I.id = II.callee.id
         /\ \/ I.op = "function_ref" /\ I.fn = target
            \/ /\ I.op = "thin_to_thick_function"
               /\ IsFunctionRefInst(F, I.args[1])
               /\ getReferencedFunctionName(F, I.args[1]) = target

\* The loop body's filter: II is an ApplyInst whose callee is a
\* FunctionRefInst of a function named target.
IsTargetApply(F, II, target) ==
  IF II.op # "apply" THEN FALSE
  ELSE IF ~IsFunctionRefInst(F, II.callee) THEN FALSE
  ELSE getReferencedFunctionName(F, II.callee) = target

\* Mutant: the last apply of the block that passes the filter is found.
RECURSIVE ScanInstsLastWins(_, _, _, _)
ScanInstsLastWins(F, target, b, i) ==
  IF i > Len(F.blocks[b]) THEN NoSite
  ELSE IF ScanInstsLastWins(F, target, b, i + 1) # NoSite
    THEN ScanInstsLastWins(F, target, b, i + 1)
  ELSE IF IsTargetApply(F, F.blocks[b][i], target) THEN <<b, i>>
  ELSE NoSite

\* for (auto &II : BB), from instruction i on: the first apply found.
RECURSIVE ScanInsts(_, _, _, _)
ScanInsts(F, target, b, i) ==
  IF i > Len(F.blocks[b]) THEN NoSite
  ELSE IF IsTargetApply(F, F.blocks[b][i], target) THEN <<b, i>>
  ELSE ScanInsts(F, target, b, i + 1)

\* Mutant: the blocks are scanned and the later blocks' match wins.
RECURSIVE ScanBlocksLaterWins(_, _, _)
ScanBlocksLaterWins(F, target, b) ==
  IF b > Len(F.blocks) THEN NoSite
  ELSE IF ScanBlocksLaterWins(F, target, b + 1) # NoSite
    THEN ScanBlocksLaterWins(F, target, b + 1)
  ELSE ScanInsts(F, target, b, 1)

\* for (auto &BB : *getFunction()), from block b on.
RECURSIVE ScanBlocks(_, _, _)
ScanBlocks(F, target, b) ==
  IF b > Len(F.blocks) THEN NoSite
  ELSE IF ScanInsts(F, target, b, 1) # NoSite THEN ScanInsts(F, target, b, 1)
  ELSE ScanBlocks(F, target, b + 1)

\* Mutant: the body is built without asking whether the stub has one.
getRuntimeCrasherFunctionRedefines(M) ==
  LET M1 == getOrCreateSharedFunction(M, RuntimeCrasherFunctionName)
      F1 == createBasicBlock(M1[RuntimeCrasherFunctionName])
      F2 == insertAtEnd(F1, BuiltinTrapInst(NextId(F1)))
      F3 == insertAtEnd(F2, UnreachableInst(NextId(F2)))
  IN  [M1 EXCEPT ![RuntimeCrasherFunctionName] = F3]

\* Mutant: the block is left without its terminator.
getRuntimeCrasherFunctionNoUnreachable(M) ==
  LET M1 == getOrCreateSharedFunction(M, RuntimeCrasherFunctionName)
      F  == M1[RuntimeCrasherFunctionName]
  IN  IF isDefinition(F) THEN M1
      ELSE LET F1 == createBasicBlock(F)
               F2 == insertAtEnd(F1, BuiltinTrapInst(NextId(F1)))
           IN  [M1 EXCEPT ![RuntimeCrasherFunctionName] = F2]

\* Mutant: the block is left without its trap.
getRuntimeCrasherFunctionNoTrap(M) ==
  LET M1 == getOrCreateSharedFunction(M, RuntimeCrasherFunctionName)
      F  == M1[RuntimeCrasherFunctionName]
  IN  IF isDefinition(F) THEN M1
      ELSE LET F1 == createBasicBlock(F)
               F3 == insertAtEnd(F1, UnreachableInst(NextId(F1)))
           IN  [M1 EXCEPT ![RuntimeCrasherFunctionName] = F3]

\* The trap stub of module M, created and defined when M has none: the
\* module after the call (the stub is M[RuntimeCrasherFunctionName]).
getRuntimeCrasherFunction(M) ==
  LET M1 == getOrCreateSharedFunction(M, RuntimeCrasherFunctionName)
      F  == M1[RuntimeCrasherFunctionName]
  IN  IF isDefinition(F) THEN M1
      ELSE LET F1 == createBasicBlock(F)
               F2 == insertAtEnd(F1, BuiltinTrapInst(NextId(F1)))
               F3 == insertAtEnd(F2, UnreachableInst(NextId(F2)))
           IN  [M1 EXCEPT ![RuntimeCrasherFunctionName] = F3]

\* Mutant: the loop goes on after an injection, to every apply it finds.
RECURSIVE RuntimeMiscompileEveryCall(_, _)
RuntimeMiscompileEveryCall(F, Apply) ==
  LET F1 == eraseFromParent(
              replaceAllUsesWith(F, Apply, SILUndefGet(Apply.ty)), Apply)
  IN  IF ScanBlocks(F1, FunctionTarget, 1) = NoSite THEN F1
      ELSE RuntimeMiscompileEveryCall(
             F1, InstAt(F1, ScanBlocks(F1, FunctionTarget, 1)))

\* Mutant: the uses are replaced and the apply is left in its block.
RuntimeMiscompileKeepsCall(F, Apply) ==
  replaceAllUsesWith(F, Apply, SILUndefGet(Apply.ty))

\* Mutant: the apply is erased with its uses left in place.
RuntimeMiscompileKeepsUses(F, Apply) == eraseFromParent(F, Apply)

\* FailureKind::RuntimeMiscompile: the apply's uses read undef, the apply is
\* erased.
RuntimeMiscompile(F, Apply) ==
  LET F1 == replaceAllUsesWith(F, Apply, SILUndefGet(Apply.ty))
  IN  eraseFromParent(F1, Apply)

\* Mutant: the stub is called with the original call left in place.
RuntimeCrasherKeepsCall(M, f, Apply) ==
  LET M1 == getRuntimeCrasherFunction(M)
      F  == M1[f]
      FRI == FunctionRefInst(NextId(F), RuntimeCrasherFunctionName, CrasherFnTy)
      F1 == insertBefore(F, Apply, FRI)
      NewApply == ApplyInst(NextId(F1), Val(FRI.id, CrasherFnTy), <<>>, EmptyTupleTy)
  IN  [M1 EXCEPT ![f] = insertBefore(F1, Apply, NewApply)]

\* FailureKind::RuntimeCrasher: a function_ref of the stub and an apply of it
\* are built before the apply, then the apply goes as above.
RuntimeCrasher(M, f, Apply) ==
  LET M1 == getRuntimeCrasherFunction(M)
      F  == M1[f]
      FRI == FunctionRefInst(NextId(F), RuntimeCrasherFunctionName, CrasherFnTy)
      F1 == insertBefore(F, Apply, FRI)
      NewApply == ApplyInst(NextId(F1), Val(FRI.id, CrasherFnTy), <<>>, EmptyTupleTy)
      F2 == insertBefore(F1, Apply, NewApply)
      F3 == replaceAllUsesWith(F2, Apply, SILUndefGet(Apply.ty))
      F4 == eraseFromParent(F3, Apply)
  IN  [M1 EXCEPT ![f] = F4]

\* What llvm_unreachable does.  With assertions it reports and aborts.  In
\* an NDEBUG build it is __builtin_unreachable(): reaching it is undefined,
\* and the builds either trap there or run on into the code that follows.
UBOutcomes == {"trap", "fallthrough"}
llvm_unreachable(ub) ==
  IF ~NDEBUG THEN "abort"
  ELSE IF ub = "trap" THEN "abort" ELSE "continue"

\* assert(cond) kills the process when assertions are compiled in.
assertFails(cond) == ~NDEBUG /\ ~cond

\* Mutant: the flag is not consulted.
returnsEarlyIgnoringFlag(caused) == FunctionTarget = ""

\* Mutant: the target name is not consulted.
returnsEarlyIgnoringTarget(caused) == caused

\* The early return of run().
returnsEarly(caused) == FunctionTarget = "" \/ caused

\* Mutant: every return of run() leaves the flag set.
ReturnedSetsFlag(M, caused, site) ==
  [module |-> M, CausedError |-> TRUE, outcome |-> "return", site |-> site]

Returned(M, caused, site) ==
  [module |-> M, CausedError |-> caused, outcome |-> "return", site |-> site]
Aborted(M, caused, site) ==
  [module |-> M, CausedError |-> caused, outcome |-> "abort", site |-> site]

\* The loop body once the apply at `site` has passed the filter: abort,
\* miscompile or crasher, by the failure kind.
foundApply(M, f, caused, site, ub) ==
  LET Apply == InstAt(M[f], site) IN
    IF TargetFailureKind = "OptimizerCrasher" /\ llvm_unreachable(ub) = "abort"
      THEN Aborted(M, caused, site)
    ELSE IF TargetFailureKind = "RuntimeMiscompile"
      THEN Returned([M EXCEPT ![f] = RuntimeMiscompile(M[f], Apply)], TRUE, site)
    ELSE IF assertFails(TargetFailureKind = "RuntimeCrasher")
      THEN Aborted(M, caused, site)
    ELSE Returned(RuntimeCrasher(M, f, Apply), TRUE, site)

\* run() on function f of module M by a pass whose flag is `caused`: the
\* module and the flag it leaves, how it ends, and the apply it found.
runResult(M, f, caused, ub) ==
  IF returnsEarly(caused) THEN Returned(M, caused, NoSite)
  ELSE IF assertFails(TargetFailureKind # "None") THEN Aborted(M, caused, NoSite)
  ELSE LET site == ScanBlocks(M[f], FunctionTarget, 1) IN
    IF site = NoSite THEN Returned(M, caused, NoSite)
    ELSE foundApply(M, f, caused, site, ub)

\* ------------------------------------------------- what the claims speak of
\* A direct call to `target`, stated on the instruction alone.
TargetRefIds(F, target) ==
  UNION {{F.blocks[b][i].id :
            i \in {j \in 1..Len(F.blocks[b]) :
                     /\ F.blocks[b][j].op = "function_ref"
                     /\ F.blocks[b][j].fn = target}} :
         b \in 1..Len(F.blocks)}
IsDirectCallTo(F, I, target) ==
  /\ I.op = "apply"
  /\ ~I.callee.undef
  /\ I.callee.id \in TargetRefIds(F, target)

Sites(F) ==
  UNION {{<<b, i>> : i \in 1..Len(F.blocks[b])} : b \in 1..Len(F.blocks)}
DirectCallSites(F, target) ==
  LET refs == TargetRefIds(F, target)
  IN  {s \in Sites(F) : /\ InstAt(F, s).op = "apply"
                        /\ ~InstAt(F, s).callee.undef
                        /\ InstAt(F, s).callee.id \in refs}
Before(s, t) == s[1] < t[1] \/ (s[1] = t[1] /\ s[2] <= t[2])
\* The first direct call in block order, then instruction order.
FirstDirectCall(F, target) ==
  CHOOSE s \in DirectCallSites(F, target) :
    \A t \in DirectCallSites(F, target) : Before(s, t)

ApplyIds(F) ==
  UNION {{F.blocks[b][i].id :
            i \in {j \in 1..Len(F.blocks[b]) : F.blocks[b][j].op = "apply"}} :
         b \in 1..Len(F.blocks)}

NoHit == [n |-> 0, f |-> "", id |-> 0]

\* run() is not running.
Idle == [on |-> FALSE, f |-> "", b |-> 0, i |-> 0]

\* ------------------------------------------------------------------ actions
Init ==
  /\ FunctionTarget \in TargetNames
  /\ TargetFailureKind \in FailureKind
  /\ NDEBUG \in BOOLEAN
  /\ \E b1 \in Bodies, b2 \in Bodies : module = InputModule(b1, b2)
  /\ CausedError = [p \in Passes |-> FALSE]
  /\ pc = "running"
  /\ nvisits = 0
  /\ last = [p |-> 0, f |-> "", pre |-> module, preCaused |-> FALSE,
             outcome |-> "none", site |-> NoSite]
  /\ firstHit = [p \in Passes |-> NoHit]
  /\ injected = [p \in Passes |-> <<>>]
  /\ worklist = <<>>
  /\ cursor = Idle

\* The pass manager runs pass instance p on function f.
run(p, f, ub) ==
  /\ pc = "running"
  /\ nvisits < MaxVisits
  /\ \E r \in {runResult(module, f, CausedError[p], ub)} :
     LET hit == DirectCallSites(module[f], FunctionTarget)
         gone == ApplyIds(module[f]) \ ApplyIds(r.module[f])
     IN  /\ module' = r.module
         /\ CausedError' = [CausedError EXCEPT ![p] = r.CausedError]
         /\ pc' = IF r.outcome = "abort" THEN "aborted" ELSE "running"
         /\ nvisits' = nvisits + 1
         /\ last' = [p |-> p, f |-> f, pre |-> module,
                     preCaused |-> CausedError[p],
                     outcome |-> r.outcome, site |-> r.site]
         /\ firstHit' =
              IF firstHit[p] = NoHit /\ hit # {}
              THEN [firstHit EXCEPT ![p] =
                      [n |-> nvisits + 1, f |-> f,
                       id |-> InstAt(module[f],
                                     FirstDirectCall(module[f], FunctionTarget)).id]]
              ELSE firstHit
         /\ injected' =
              IF gone # {}
              THEN [injected EXCEPT ![p] =
                      Append(@, [n |-> nvisits + 1, f |-> f, ids |-> gone])]
              ELSE injected
  /\ UNCHANGED <<config, worklist, cursor>>

\* Only llvm_unreachable in an NDEBUG build has more than one outcome.
Undefined == IF NDEBUG /\ TargetFailureKind = "OptimizerCrasher"
             THEN UBOutcomes ELSE {"trap"}

Next == \E p \in Passes, f \in DOMAIN module, ub \in Undefined : run(p, f, ub)

Spec == Init /\ [][Next]_vars

\* ------------------------------------------------------- run(), step by step
\* The same pass with run() taken one loop iteration at a time: one pass
\* instance is handed the functions of a finite list, each invocation running
\* to its end before the next begins.
ThePass == 1
Worklists == {<<"f1", "f2">>, <<"f2", "target", "f2", "f1">>}

InitSteps ==
  /\ FunctionTarget \in TargetNames
  /\ TargetFailureKind \in FailureKind
  /\ NDEBUG \in BOOLEAN
  /\ \E b1 \in Bodies, b2 \in Bodies : module = InputModule(b1, b2)
  /\ CausedError = [p \in Passes |-> FALSE]
  /\ pc = "running"
  /\ nvisits = 0
  /\ last = [p |-> 0, f |-> "", pre |-> module, preCaused |-> FALSE,
             outcome |-> "none", site |-> NoSite]
  /\ firstHit = [p \in Passes |-> NoHit]
  /\ injected = [p \in Passes |-> <<>>]
  /\ worklist \in Worklists
  /\ cursor = Idle

\* The invocation that is running ends with result r.
finish(r) ==
  /\ module' = r.module
  /\ CausedError' = [CausedError EXCEPT ![ThePass] = r.CausedError]
  /\ pc' = IF r.outcome = "abort" THEN "aborted" ELSE "running"
  /\ last' = [last EXCEPT !.outcome = r.outcome, !.site = r.site]

\* ++II: on to the next instruction of the block.
nextInstruction(cur) == [cur EXCEPT !.i = cur.i + 1]

\* Mutant: the block iterator is not advanced.
nextBlockStays(cur) == [cur EXCEPT !.i = 1]

\* ++BB: on to the first instruction of the next block.
nextBlock(cur) == [cur EXCEPT !.b = cur.b + 1, !.i = 1]

\* Where control stands once run() has been entered on function f: out of
\* run() again after the early return or the failed assert, else at the
\* first instruction of the first block.
enter(f) ==
  IF returnsEarly(CausedError[ThePass]) THEN Idle
  ELSE IF assertFails(TargetFailureKind # "None") THEN Idle
  ELSE [on |-> TRUE, f |-> f, b |-> 1, i |-> 1]

\* Where control stands after one more iteration of the loops: out of run()
\* when the blocks are exhausted or the apply was found (every branch of the
\* loop body ends the invocation), else at the next block or instruction.
advance(cur) ==
  LET F == module[cur.f] IN
    IF cur.b > Len(F.blocks) THEN Idle
    ELSE IF cur.i > Len(F.blocks[cur.b]) THEN nextBlock(cur)
    ELSE IF IsTargetApply(F, F.blocks[cur.b][cur.i], FunctionTarget) THEN Idle
    ELSE nextInstruction(cur)

\* The pass manager calls run() on the next function of the list: the early
\* return, the assert, or the entry into the loops.
beginRun ==
  /\ pc = "running"
  /\ ~cursor.on
  /\ worklist # <<>>
  /\ worklist' = Tail(worklist)
  /\ cursor' = enter(Head(worklist))
  /\ nvisits' = nvisits + 1
  /\ LET f == Head(worklist)
         begun == [p |-> ThePass, f |-> f, pre |-> module,
                   preCaused |-> CausedError[ThePass],
                   outcome |-> "none", site |-> NoSite]
     IN  IF returnsEarly(CausedError[ThePass])
           THEN /\ last' = [begun EXCEPT !.outcome = "return"]
                /\ UNCHANGED <<module, CausedError, pc>>
         ELSE IF assertFails(TargetFailureKind # "None")
           THEN /\ last' = [begun EXCEPT !.outcome = "abort"]
                /\ pc' = "aborted"
                /\ UNCHANGED <<module, CausedError>>
         ELSE /\ last' = begun
              /\ UNCHANGED <<module, CausedError, pc>>
  /\ UNCHANGED <<config, firstHit, injected>>

\* One iteration of the loops of run().
stepRun(ub) ==
  /\ pc = "running"
  /\ cursor.on
  /\ cursor' = advance(cursor)
  /\ LET F == module[cursor.f] IN
       IF cursor.b > Len(F.blocks)
         THEN finish(Returned(module, CausedError[ThePass], NoSite))
       ELSE IF cursor.i > Len(F.blocks[cursor.b])
         THEN UNCHANGED <<module, CausedError, pc, last>>
       ELSE IF ~IsTargetApply(F, F.blocks[cursor.b][cursor.i], FunctionTarget)
         THEN UNCHANGED <<module, CausedError, pc, last>>
       ELSE \E r \in {foundApply(module, cursor.f, CausedError[ThePass],
                                 <<cursor.b, cursor.i>>, ub)} : finish(r)
  /\ UNCHANGED <<config, nvisits, firstHit, injected, worklist>>

NextSteps == beginRun \/ \E ub \in Undefined : stepRun(ub)

\* What a step of NextSteps does to the control state alone, the list and
\* the loop position.  Every step of beginRun or stepRun is such a step, and
\* the rest of either action assigns total expressions, so NextSteps can step
\* exactly where control can.
control ==
  /\ pc = "running"
  /\ \/ /\ ~cursor.on
        /\ worklist # <<>>
        /\ worklist' = Tail(worklist)
        /\ cursor' = enter(Head(worklist))
     \/ /\ cursor.on
        /\ worklist' = worklist
        /\ cursor' = advance(cursor)

\* run() is straight-line code on one thread, called by a pass manager that
\* walks its list: while the process lives, control moves on.
SpecSteps ==
  InitSteps /\ [][NextSteps]_vars /\ WF_<<worklist, cursor>>(control)

\* ------------------------------------------------------------------ claims
Injecting == TargetFailureKind \in {"RuntimeMiscompile", "RuntimeCrasher"}

\* The latest invocation found a call and returned: it injected.
LastInjected == last.outcome = "return" /\ last.site # NoSite
PreF == last.pre[last.f]
PostF == module[last.f]
\* The call the latest invocation found, as it was before the invocation.
LastApply == InstAt(PreF, last.site)

InstOf(F, id) == CHOOSE I \in InstSet(F) : I.id = id
Operands(I) == <<I.callee>> \o I.args
Reads(v, I) == ~v.undef /\ v.id = I.id

\* Instruction id of F has the operands it had in Pre, except that each
\* operand that read the result of Apply is SILUndef of Apply's type.
UsesReadUndef(Pre, F, Apply) ==
  \A id \in InstIds(Pre) \ {Apply.id} :
    /\ id \in InstIds(F)
    /\ Len(Operands(InstOf(F, id))) = Len(Operands(InstOf(Pre, id)))
    /\ \A k \in 1..Len(Operands(InstOf(Pre, id))) :
         Operands(InstOf(F, id))[k] =
           IF Reads(Operands(InstOf(Pre, id))[k], Apply)
           THEN [undef |-> TRUE, id |-> 0, ty |-> Apply.ty]
           ELSE Operands(InstOf(Pre, id))[k]
HasUse(F, Apply) ==
  \E I \in InstSet(F) : \E k \in 1..Len(Operands(I)) : Reads(Operands(I)[k], Apply)

\* C1: with a non-empty target and failure kind runtime-miscompile or
\* runtime-crash, a pass instance that has visited no function holding a
\* direct call to the target has injected nothing, and one that has visited
\* such a function has injected exactly once: in the first such visit, at the
\* first direct call of that function in block-then-instruction order.
ExactlyOnceInjection ==
  (FunctionTarget # "" /\ Injecting) =>
    \A p \in Passes :
      IF firstHit[p] = NoHit THEN injected[p] = <<>>
      ELSE injected[p] = << [n |-> firstHit[p].n, f |-> firstHit[p].f,
                             ids |-> {firstHit[p].id}] >>

\* A pass whose first visit found nothing, whose second injected, and which
\* then visited a function that still held a direct call.
ExactlyOnceWitness ==
  /\ Injecting
  /\ last.p \in Passes
  /\ Len(injected[last.p]) = 1
  /\ firstHit[last.p].n = 2
  /\ nvisits = 3
  /\ last.preCaused
  /\ DirectCallSites(PreF, FunctionTarget) # {}

\* C2: CausedError starts false, never goes from true to false, and an
\* invocation of run() by an instance whose flag is already true returns
\* with the module as it was.
FlagSetOnceAndSuppresses ==
  /\ \A p \in Passes : ~CausedError[p]
  /\ [][/\ \A p \in Passes : CausedError[p] => CausedError'[p]
        /\ \A p \in Passes :
             (nvisits' = nvisits + 1 /\ last'.p = p /\ CausedError[p]) =>
               (module' = module /\ last'.outcome = "return")]_vars

\* An instance with its flag set has just visited a function that holds a
\* direct call to the target.
SuppressedWitness ==
  /\ last.preCaused
  /\ last.outcome = "return"
  /\ Cardinality(DirectCallSites(PreF, FunctionTarget)) >= 1
  /\ PreF.blocks \in {OneCall, HigherOrder}

\* C3: under runtime-miscompile, after injecting into a function that held
\* exactly one direct call to the target, the call is no instruction of the
\* function, every operand that read its result is SILUndef of the call's
\* type (all other operands are as before), and its block is one shorter.
MiscompileRemovesCall ==
  (/\ TargetFailureKind = "RuntimeMiscompile"
   /\ LastInjected
   /\ Cardinality(DirectCallSites(PreF, FunctionTarget)) = 1) =>
     /\ LastApply.id \notin InstIds(PostF)
     /\ UsesReadUndef(PreF, PostF, LastApply)
     /\ Len(PostF.blocks) = Len(PreF.blocks)
     /\ \A b \in 1..Len(PreF.blocks) :
          Len(PostF.blocks[b]) =
            IF b = last.site[1] THEN Len(PreF.blocks[b]) - 1
            ELSE Len(PreF.blocks[b])

\* A miscompile injection at a call whose result had uses.
MiscompileWitness ==
  /\ TargetFailureKind = "RuntimeMiscompile"
  /\ LastInjected
  /\ Cardinality(DirectCallSites(PreF, FunctionTarget)) = 1
  /\ HasUse(PreF, LastApply)

\* An apply of F whose callee is a function_ref of the trap stub.
IsStubCall(F, I) == IsDirectCallTo(F, I, RuntimeCrasherFunctionName)
StubCallIds(F) == {I.id : I \in {J \in InstSet(F) : IsStubCall(F, J)}}
IdsOf(block) == [k \in 1..Len(block) |-> block[k].id]

\* C4: under runtime-crash, an injection adds exactly one call of the trap
\* stub to the function; the call takes no arguments and stands in the
\* matched block right before the instruction that followed the original
\* call, after the instructions that preceded it and the stub's function_ref;
\* the original call is gone and every operand that read its result is
\* SILUndef of its type.
CrasherInsertsStubCall ==
  (TargetFailureKind = "RuntimeCrasher" /\ LastInjected) =>
    LET b == last.site[1]
        i == last.site[2]
        Pre == PreF.blocks[b]
        Post == PostF.blocks[b]
        new == StubCallIds(PostF) \ StubCallIds(PreF)
    IN  /\ Cardinality(new) = 1
        /\ Len(Post) = Len(Pre) + 1
        /\ Post[i + 1].id \in new
        /\ Post[i + 1].args = <<>>
        /\ Post[i].op = "function_ref"
        /\ Post[i].fn = RuntimeCrasherFunctionName
        /\ Post[i + 1].callee = [undef |-> FALSE, id |-> Post[i].id, ty |-> Post[i].ty]
        /\ SubSeq(IdsOf(Post), 1, i - 1) = SubSeq(IdsOf(Pre), 1, i - 1)
        /\ SubSeq(IdsOf(Post), i + 2, Len(Post)) = SubSeq(IdsOf(Pre), i + 1, Len(Pre))
        /\ \A c \in 1..Len(PreF.blocks) :
             c # b => IdsOf(PostF.blocks[c]) = IdsOf(PreF.blocks[c])
        /\ LastApply.id \notin InstIds(PostF)
        /\ UsesReadUndef(PreF, PostF, LastApply)

\* A runtime-crash injection at a call with instructions before it in its
\* block and uses after it.
CrasherWitness ==
  /\ TargetFailureKind = "RuntimeCrasher"
  /\ LastInjected
  /\ last.site[2] > 2
  /\ HasUse(PreF, LastApply)

HasStub(M) == RuntimeCrasherFunctionName \in DOMAIN M
Stub(M) == M[RuntimeCrasherFunctionName]
OpsOf(F) == [b \in 1..Len(F.blocks) |->
               [i \in 1..Len(F.blocks[b]) |-> F.blocks[b][i].op]]

\* C5: the trap stub is defined once per module: an invocation that starts
\* with the stub defined leaves the stub as it was, also when it injects a
\* call of it, and the stub never has more than one block.
StubDefinedOnce ==
  /\ (HasStub(last.pre) /\ isDefinition(Stub(last.pre))) =>
       (HasStub(module) /\ Stub(module) = Stub(last.pre))
  /\ HasStub(module) => Len(Stub(module).blocks) <= 1

\* Two pass instances have each injected a call of the stub, the second
\* finding the stub already defined.
StubReusedWitness ==
  /\ TargetFailureKind = "RuntimeCrasher"
  /\ LastInjected
  /\ HasStub(last.pre)
  /\ isDefinition(Stub(last.pre))
  /\ \A p \in Passes : p <= 2 => Len(injected[p]) = 1
  /\ Cardinality(UNION {StubCallIds(module[f]) : f \in {"f1", "f2"}}) = 2

\* C6: whenever a function of the module calls the trap stub, the stub is a
\* definition of one block whose instructions are a trap then unreachable.
StubBodyIsTrapUnreachable ==
  (\E f \in DOMAIN module : StubCallIds(module[f]) # {}) =>
    /\ HasStub(module)
    /\ isDefinition(Stub(module))
    /\ OpsOf(Stub(module)) = << <<"builtin_int_trap", "unreachable">> >>

\* The first runtime-crash injection of a run: it created the stub.
StubBodyWitness ==
  /\ TargetFailureKind = "RuntimeCrasher"
  /\ LastInjected
  /\ ~HasStub(last.pre)
  /\ StubCallIds(PostF) # {}

\* An invocation has run (last describes it).
Visited == last.outcome # "none"
FlagsFalse == \A p \in Passes : ~CausedError[p]

\* C7 (as claimed): under optimizer-abort, an invocation on a function that
\* holds a direct call to the target ends in the abort, with the module and
\* the flag as they were before it.
OptimizerCrasherAborts ==
  (/\ TargetFailureKind = "OptimizerCrasher"
   /\ Visited
   /\ ~last.preCaused
   /\ DirectCallSites(PreF, FunctionTarget) # {}) =>
     /\ last.outcome = "abort"
     /\ module = last.pre
     /\ ~CausedError[last.p]

\* C8 (as claimed): with failure kind none and a non-empty target, every
\* invocation returns normally and leaves the module and the flags untouched.
NoneIsNoOp ==
  (TargetFailureKind = "None" /\ FunctionTarget # "" /\ Visited) =>
     /\ last.outcome = "return"
     /\ module = last.pre
     /\ ~HasStub(module)
     /\ FlagsFalse

\* C9: with an empty target name, whatever the failure kind, every
\* invocation returns normally with the module as it was, the module never
\* holds the stub, the process never aborts and no flag is ever set.
EmptyTargetDisables ==
  FunctionTarget = "" =>
    /\ Visited => (last.outcome = "return" /\ module = last.pre)
    /\ ~HasStub(module)
    /\ pc = "running"
    /\ FlagsFalse
    /\ \A p \in Passes : injected[p] = <<>>

\* With an empty target and failure kind none in a build with assertions,
\* several invocations, the latest on a function that calls @target.
EmptyTargetWitness ==
  /\ FunctionTarget = ""
  /\ TargetFailureKind = "None"
  /\ ~NDEBUG
  /\ nvisits >= 2
  /\ DirectCallSites(PreF, "target") # {}

\* The applies of module M that are direct calls to the target, and all of
\* its applies, each named by its function and id.
DirectCallsOf(M) ==
  UNION {{<<f, M[f].blocks[s[1]][s[2]].id>> :
            s \in DirectCallSites(M[f], FunctionTarget)} : f \in DOMAIN M}
AppliesOf(M) == UNION {{<<f, id>> : id \in ApplyIds(M[f])} : f \in DOMAIN M}

\* C10: the call an invocation finds (to remove, or to abort on) is an apply
\* whose callee is a function_ref of a function named as the target, and
\* every apply the invocation removes from the module is such a call: no
\* indirect call and no call to a function of another name is touched.
OnlyDirectCallsMatched ==
  Visited =>
    /\ last.site # NoSite =>
         /\ LastApply.op = "apply"
         /\ ~LastApply.callee.undef
         /\ \E R \in InstSet(PreF) :
              /\ R.id = LastApply.callee.id
              /\ R.op = "function_ref"
              /\ R.fn = FunctionTarget
    /\ (AppliesOf(last.pre) \ AppliesOf(module)) \subseteq DirectCallsOf(last.pre)
    /\ (AppliesOf(last.pre) \ AppliesOf(module)) # {} => last.site # NoSite

\* An invocation passed two indirect calls that alias the target and matched
\* the direct call behind them.
IndirectSkippedWitness ==
  /\ last.site = <<1, 5>>
  /\ PreF.blocks = IndirectThenDirect
  /\ last.outcome \in {"return", "abort"}

\* The latest invocation got past the early return and the assert of
\* line 105: it scanned the function.
Scanned ==
  /\ Visited
  /\ ~last.preCaused
  /\ FunctionTarget # ""
  /\ (NDEBUG \/ TargetFailureKind # "None")

\* C11: the scan's result is a function of the function scanned and the
\* target name alone: it is the first direct call to the target in
\* block-then-instruction order when the function holds one, and no match
\* otherwise; a scan with no match returns with the module and the flag as
\* they were.
MatchIsFirstDirectCall ==
  Scanned =>
    /\ last.site = IF DirectCallSites(PreF, FunctionTarget) = {} THEN NoSite
                   ELSE FirstDirectCall(PreF, FunctionTarget)
    /\ last.site = NoSite =>
         /\ last.outcome = "return"
         /\ module = last.pre
         /\ CausedError[last.p] = last.preCaused

\* Two scans so far, the latest of a function whose calls of the target are
\* all indirect: no match.
NoMatchScanWitness ==
  /\ Scanned
  /\ nvisits >= 2
  /\ last.site = NoSite
  /\ PreF.blocks = IndirectOnly

\* C12: an invocation that injects removes one apply of the module, the
\* first direct call of the visited function; every later direct call of
\* that function is still a direct call in its block, all operands that did
\* not read the removed call are as they were, and every other function is
\* unchanged, but for the trap stub when the failure kind is not
\* runtime-miscompile.
OneInjectionPerInvocation ==
  LastInjected =>
    /\ AppliesOf(last.pre) \ AppliesOf(module) = {<<last.f, LastApply.id>>}
    /\ last.site = FirstDirectCall(PreF, FunctionTarget)
    /\ \A s \in DirectCallSites(PreF, FunctionTarget) \ {last.site} :
         /\ InstAt(PreF, s).id \in {PostF.blocks[s[1]][k].id :
                                      k \in 1..Len(PostF.blocks[s[1]])}
         /\ IsDirectCallTo(PostF, InstOf(PostF, InstAt(PreF, s).id), FunctionTarget)
    /\ UsesReadUndef(PreF, PostF, LastApply)
    /\ \A g \in DOMAIN last.pre :
         (g # last.f /\ g # RuntimeCrasherFunctionName) => module[g] = last.pre[g]
    /\ DOMAIN module \ DOMAIN last.pre \subseteq {RuntimeCrasherFunctionName}
    /\ TargetFailureKind = "RuntimeMiscompile" =>
         \A g \in DOMAIN module :
           g # last.f => (g \in DOMAIN last.pre /\ module[g] = last.pre[g])

\* An injection into a function with two direct calls in the matched block,
\* the second one using the first one's result, with another function in the
\* module that also calls the target.
SeveralCallsWitness ==
  /\ LastInjected
  /\ PreF.blocks = SameBlock
  /\ \E g \in DOMAIN module :
       g # last.f /\ DirectCallSites(module[g], FunctionTarget) # {}

\* C13: a visit to a function with no direct call to the target finds
\* nothing and leaves the module and the flag as they were (and returns
\* normally under runtime-miscompile and runtime-crash); under those kinds a
\* pass instance injects in its first visit to a function that holds a direct
\* call, however many visits without one came before.
NoMatchVisitChangesNothing ==
  /\ (Visited /\ DirectCallSites(PreF, FunctionTarget) = {}) =>
       /\ last.site = NoSite
       /\ module = last.pre
       /\ CausedError[last.p] = last.preCaused
       /\ Injecting => last.outcome = "return"
  /\ (Injecting /\ FunctionTarget # "") =>
       \A p \in Passes :
         firstHit[p] # NoHit =>
           /\ injected[p] # <<>>
           /\ injected[p][1].n = firstHit[p].n
           /\ injected[p][1].f = firstHit[p].f

\* A pass instance visited a declaration, then a function with only indirect
\* calls, then injected into a function with a direct call.
LaterVisitInjectedWitness ==
  /\ Injecting
  /\ LastInjected
  /\ nvisits = 3
  /\ firstHit[last.p].n = 3
  /\ \E g \in DOMAIN module : module[g].blocks = IndirectOnly

\* Block blk ends in a terminator and holds no other.
WellFormedBlock(blk) ==
  /\ Len(blk) >= 1
  /\ blk[Len(blk)].op \in Terminators
  /\ \A k \in 1..(Len(blk) - 1) : blk[k].op \notin Terminators

\* C14: every basic block of every function of the module ends in exactly
\* one terminator, its last instruction.
BlocksEndInOneTerminator ==
  \A f \in DOMAIN module :
    \A b \in 1..Len(module[f].blocks) : WellFormedBlock(module[f].blocks[b])

\* A runtime-crash injection at a call that stood right before its block's
\* terminator, the stub built in the same invocation.
TerminatorKeptWitness ==
  /\ TargetFailureKind = "RuntimeCrasher"
  /\ LastInjected
  /\ last.site[2] = Len(PreF.blocks[last.site[1]]) - 1
  /\ ~HasStub(last.pre)
  /\ HasStub(module)

\* C15 (as claimed): under runtime-miscompile, optimizer-abort and none the
\* module never holds the trap stub nor a call of it, and under runtime-crash
\* it holds the stub only once some pass instance has injected.
StubOnlyOnCrasherPath ==
  /\ TargetFailureKind # "RuntimeCrasher" =>
       /\ ~HasStub(module)
       /\ \A f \in DOMAIN module : StubCallIds(module[f]) = {}
  /\ (TargetFailureKind = "RuntimeCrasher" /\ HasStub(module)) =>
       \E p \in Passes : injected[p] # <<>>

\* C17: a pass instance's flag is set exactly when it has removed one call
\* (one visit, one apply) and clear exactly when it has removed none, and an
\* invocation changes the flag exactly when it removes an apply.
FlagAgreesWithRemovals ==
  /\ \A p \in Passes :
       /\ CausedError[p] <=>
            (Len(injected[p]) = 1 /\ Cardinality(injected[p][1].ids) = 1)
       /\ ~CausedError[p] <=> injected[p] = <<>>
  /\ Visited =>
       ((CausedError[last.p] # last.preCaused) <=>
          (AppliesOf(last.pre) \ AppliesOf(module) # {}))

\* One instance has its flag set after removing a call, the other has
\* visited a function and removed nothing.
FlagAgreesWitness ==
  /\ \E p \in Passes : CausedError[p] /\ Len(injected[p]) = 1
  /\ \E p \in Passes : ~CausedError[p] /\ last.p = p /\ last.outcome = "return"
  /\ nvisits >= 2

\* Every invocation has ended and the list is empty, or the process
\* aborted.
RunOver == pc = "aborted" \/ (worklist = <<>> /\ ~cursor.on)

\* An invocation that has ended step by step ends as run() taken whole.
StepsAgreeWithRun ==
  (~cursor.on /\ Visited) =>
    \E ub \in Undefined :
      runResult(last.pre, last.f, last.preCaused, ub) =
        [module |-> module, CausedError |-> CausedError[ThePass],
         outcome |-> last.outcome, site |-> last.site]

\* The fairness condition of SpecSteps is stated on `control`: NextSteps can
\* take a step exactly where control can.
ControlIsExact ==
  (ENABLED <<NextSteps>>_vars) <=> (ENABLED <<control>>_<<worklist, cursor>>)

\* C16: an invocation of run() that has entered its loops leaves them, by a
\* return or by the abort, also when it erases the apply it stands on; and
\* the run over the list of functions ends: the list is exhausted with no
\* invocation running, or the process has aborted.
RunTerminates ==
  /\ cursor.on ~> ~cursor.on
  /\ <>RunOver

\* The list is exhausted after an invocation that erased the apply its scan
\* stood on, in the second block of its function.
RunCompletedWitness ==
  /\ worklist = <<>>
  /\ ~cursor.on
  /\ pc = "running"
  /\ CausedError[ThePass]
  /\ last.site[1] = 2

====
